---- MODULE Spec2Model ----
(***************************************************************************)
(* Output profiles of zen_coding (src/javascript/profile.js): the registry *)
(* `profiles`, the shared `defaultProfile`, the OutputProfile constructor   *)
(* and its accessors, and the module's create / get / remove / stringCase.  *)
(*                                                                         *)
(* JavaScript values are records [t, s, b, n]: t is the type tag, s the     *)
(* characters of a string (a sequence of one-character strings), b a        *)
(* boolean, n a number or, for an object, its identity (heap address).      *)
(***************************************************************************)
EXTENDS Integers, Sequences, FiniteSets

VARIABLES profiles, heap, defaultProfile, call, ret

vars == <<profiles, heap, defaultProfile, call, ret>>

\* ------------------------------------------------------------ bounds
\* Objects allocated after the four built-in profiles.
MaxObjs == 2
\* Longest string handed to stringCase / tagName / attributeName.
MaxLen == 2

\* ------------------------------------------------------- JS values
Str(s)  == [t |-> "string",    s |-> s,    b |-> FALSE, n |-> 0]
Bool(b) == [t |-> "boolean",   s |-> <<>>, b |-> b,     n |-> 0]
Num(n)  == [t |-> "number",    s |-> <<>>, b |-> FALSE, n |-> n]
Ref(i)  == [t |-> "object",    s |-> <<>>, b |-> FALSE, n |-> i]
\* A one-element array [s] (an object whose primitive form is the string s).
Arr(s)  == [t |-> "array",     s |-> s,    b |-> FALSE, n |-> 0]
Undef   == [t |-> "undefined", s |-> <<>>, b |-> FALSE, n |-> 0]
\* Object.prototype.constructor, which every plain object such as `profiles` inherits.
ObjectCtor == [t |-> "function", s |-> <<"O","b","j","e","c","t">>, b |-> FALSE, n |-> 0]
\* A thrown TypeError.
TypeError == [t |-> "TypeError", s |-> <<>>, b |-> FALSE, n |-> 0]

Return(v) == [kind |-> "return", val |-> v]
Throw(v)  == [kind |-> "throw",  val |-> v]

\* ToBoolean: the truthiness `&&`, `||` and `if` test.
Truthy(v) ==
    CASE v.t = "undefined" -> FALSE
      [] v.t = "boolean"   -> v.b
      [] v.t = "number"    -> v.n # 0
      [] v.t = "string"    -> v.s # <<>>
      [] OTHER             -> TRUE

\* _.isString
isString(v) == v.t = "string"

\* ---------------------------------------------------------- strings
UpperLetters == <<"A","B","C","D","E","F","G","H","I","J","K","L","M",
                  "N","O","P","Q","R","S","T","U","V","W","X","Y","Z">>
LowerLetters == <<"a","b","c","d","e","f","g","h","i","j","k","l","m",
                  "n","o","p","q","r","s","t","u","v","w","x","y","z">>

LowerChar(c) ==
    IF \E i \in DOMAIN UpperLetters : UpperLetters[i] = c
    THEN LowerLetters[CHOOSE i \in DOMAIN UpperLetters : UpperLetters[i] = c]
    ELSE c

UpperChar(c) ==
    IF \E i \in DOMAIN LowerLetters : LowerLetters[i] = c
    THEN UpperLetters[CHOOSE i \in DOMAIN LowerLetters : LowerLetters[i] = c]
    ELSE c

\* String.prototype.toLowerCase / toUpperCase, character by character.
toLowerCase(s) == [i \in 1..Len(s) |-> LowerChar(s[i])]
toUpperCase(s) == [i \in 1..Len(s) |-> UpperChar(s[i])]

Digits == <<"0","1","2","3","4","5","6","7","8","9">>

\* String(v) for the values of the model.
String(v) ==
    CASE v.t = "string"    -> v.s
      [] v.t = "array"     -> v.s
      [] v.t = "boolean"   -> IF v.b THEN <<"t","r","u","e">> ELSE <<"f","a","l","s","e">>
      [] v.t = "number"    -> <<Digits[v.n + 1]>>
      [] v.t = "undefined" -> <<"u","n","d","e","f","i","n","e","d">>
      [] OTHER             -> <<"[","o","b","j","e","c","t"," ","O","b","j","e","c","t","]">>

\* The loose equality  v == '<string s>'  of selfClosing: a string compares by
\* its characters, an array by its primitive (string) form; a number or a
\* boolean compares as a number with NaN, undefined with nothing.
LooseEqualsString(v, s) ==
    CASE v.t = "string" -> v.s = s
      [] v.t = "array"  -> v.s = s
      [] OTHER          -> FALSE

\* The strict equality  v === true.
StrictEqualsTrue(v) == v.t = "boolean" /\ v.b

S_lower  == <<"l","o","w","e","r">>
S_upper  == <<"u","p","p","e","r">>
S_leave  == <<"l","e","a","v","e">>
S_double == <<"d","o","u","b","l","e">>
S_decide == <<"d","e","c","i","d","e">>
S_xhtml  == <<"x","h","t","m","l">>
S_html   == <<"h","t","m","l">>
S_xml    == <<"x","m","l">>
S_plain  == <<"p","l","a","i","n">>
S_custom == <<"c","u","s","t","o","m">>
S_Custom == <<"C","u","s","t","o","m">>
S_XHTML  == <<"X","H","T","M","L">>
S_constructor == <<"c","o","n","s","t","r","u","c","t","o","r">>
S_UPPER  == <<"U","P","P","E","R">>
S_Lower  == <<"L","o","w","e","r">>

\* ------------------------------------------------------ the defaults
FieldNames == {"tag_case", "attr_case", "attr_quotes", "tag_nl", "place_cursor",
               "indent", "inline_break", "self_closing_tag", "filters"}

\* The value of `defaultProfile` after the module body has run.
DefaultProfileInit ==
    [tag_case         |-> Str(S_lower),
     attr_case        |-> Str(S_lower),
     attr_quotes      |-> Str(S_double),
     tag_nl           |-> Str(S_decide),
     place_cursor     |-> Bool(TRUE),
     indent           |-> Bool(TRUE),
     inline_break     |-> Num(3),
     self_closing_tag |-> Str(S_xhtml),
     filters          |-> Str(<<>>)]

\* An options argument is the set of its own properties; `undefined` and `{}`
\* both contribute none.
NoOptions == [f \in {} |-> Undef]

\* _.extend(dst, src): every property of src is copied onto dst.
Extend(dst, src) ==
    [f \in DOMAIN dst \cup DOMAIN src |-> IF f \in DOMAIN src THEN src[f] ELSE dst[f]]

\* _.defaults(obj, defs): the properties obj lacks are filled from defs.
Defaults(obj, defs) ==
    [f \in DOMAIN obj \cup DOMAIN defs |-> IF f \in DOMAIN obj THEN obj[f] ELSE defs[f]]

\* The machine state a function of the module reads and writes.
State(P, H, D) == [profiles |-> P, heap |-> H, defaultProfile |-> D]

Here == State(profiles, heap, defaultProfile)

Result(st, r) == [st |-> st, ret |-> r]

\* ---------------------------------------------------------- Profile
\* new OutputProfile(options): a new object whose properties are the defaults
\* overlaid with the options; the result is the new object's reference.
\* Variant: the options are written into the shared defaults record first.
OutputProfile_SharedDefaults(st, options) ==
    LET merged == Extend(st.defaultProfile, options)
        obj    == [proto |-> "OutputProfile", fields |-> merged]
    IN  Result([st EXCEPT !.heap = Append(@, obj), !.defaultProfile = merged],
               Return(Ref(Len(st.heap) + 1)))

\* Variant: the options are not merged at all.
OutputProfile_IgnoreOptions(st, options) ==
    LET obj == [proto |-> "OutputProfile", fields |-> Extend(NoOptions, st.defaultProfile)]
    IN  Result([st EXCEPT !.heap = Append(@, obj)], Return(Ref(Len(st.heap) + 1)))

OutputProfile(st, options) ==
    LET self == Extend(Extend(NoOptions, st.defaultProfile), options)
        obj  == [proto |-> "OutputProfile", fields |-> self]
    IN  Result([st EXCEPT !.heap = Append(@, obj)], Return(Ref(Len(st.heap) + 1)))

\* Variant: the case value is compared as given, not lowercased.
stringCase_NoNormalize(str, caseValue) ==
    LET c == String(IF Truthy(caseValue) THEN caseValue ELSE Str(<<>>))
    IN  CASE c = S_lower -> toLowerCase(str)
          [] c = S_upper -> toUpperCase(str)
          [] OTHER       -> str

stringCase(str, caseValue) ==
    LET c == toLowerCase(String(IF Truthy(caseValue) THEN caseValue ELSE Str(<<>>)))
    IN  CASE c = S_lower -> toLowerCase(str)
          [] c = S_upper -> toUpperCase(str)
          [] OTHER       -> str

\* The accessors take the receiver's properties (`this`).
tagName(this, name) == stringCase(name, this.tag_case)

attributeName(this, name) == stringCase(name, this.attr_case)

\* Variant: `== true` in place of `=== true` (1 == true holds).
selfClosing_LooseTrue(this) ==
    IF LooseEqualsString(this.self_closing_tag, S_xhtml) THEN <<" ", "/">>
    ELSE IF StrictEqualsTrue(this.self_closing_tag)
            \/ this.self_closing_tag = Num(1) THEN <<"/">>
    ELSE <<>>

selfClosing(this) ==
    IF LooseEqualsString(this.self_closing_tag, S_xhtml) THEN <<" ", "/">>
    ELSE IF StrictEqualsTrue(this.self_closing_tag) THEN <<"/">>
    ELSE <<>>

\* --------------------------------------------------------- Registry
\* Property names `profiles` inherits from Object.prototype that a lowercased
\* name can spell.
InheritedKeys == {S_constructor}

\* key in profiles
In(key, P) == key \in DOMAIN P \/ key \in InheritedKeys

\* profiles[key]
Lookup(P, key) ==
    IF key \in DOMAIN P THEN Ref(P[key])
    ELSE IF key = S_constructor THEN ObjectCtor
    ELSE Undef

\* Variant: the name is used as the key without lowercasing.
createProfile_NoLower(st, name, options) ==
    IF ~isString(name) THEN Result(st, Throw(TypeError))
    ELSE LET key   == name.s
             built == OutputProfile(st, options)
             P     == built.st.profiles
         IN  Result([built.st EXCEPT !.profiles =
                        [k \in DOMAIN P \cup {key} |-> IF k = key THEN built.ret.val.n ELSE P[k]]],
                    built.ret)

\* Variant: an entry that exists is kept, the new profile is only returned.
createProfile_KeepFirst(st, name, options) ==
    IF ~isString(name) THEN Result(st, Throw(TypeError))
    ELSE LET key   == toLowerCase(name.s)
             built == OutputProfile(st, options)
             P     == built.st.profiles
         IN  Result([built.st EXCEPT !.profiles =
                        [k \in DOMAIN P \cup {key} |->
                            IF k = key /\ k \notin DOMAIN P THEN built.ret.val.n ELSE P[k]]],
                    built.ret)

createProfile(st, name, options) ==
    IF ~isString(name) THEN Result(st, Throw(TypeError))
    ELSE LET key   == toLowerCase(name.s)
             built == OutputProfile(st, options)
             P     == built.st.profiles
         IN  Result([built.st EXCEPT !.profiles =
                        [k \in DOMAIN P \cup {key} |-> IF k = key THEN built.ret.val.n ELSE P[k]]],
                    built.ret)

\* create: nargs is arguments.length; options is read only when nargs = 2.
create(st, nargs, name, options) ==
    IF nargs = 2 THEN createProfile(st, name, options)
    ELSE IF ~Truthy(name)
         THEN \* _.defaults({}, defaultProfile)
              Result([st EXCEPT !.heap = Append(@, [proto |-> "Object",
                                  fields |-> Defaults(NoOptions, st.defaultProfile)])],
                     Return(Ref(Len(st.heap) + 1)))
    ELSE IF name.t = "object"
         THEN \* _.defaults(name, defaultProfile) fills the caller's object in place
              Result([st EXCEPT !.heap[name.n].fields = Defaults(@, st.defaultProfile)],
                     Return(name))
    ELSE Result(st, Return(name))

\* get: subset is what require('resources').getSubset(syntax, 'profile') answers.
get(st, name, syntax, subset) ==
    LET name1 == IF Truthy(syntax) /\ isString(name) /\ Truthy(subset) THEN subset ELSE name
    IN  IF isString(name1) /\ In(toLowerCase(name1.s), st.profiles)
        THEN Result(st, Return(Lookup(st.profiles, toLowerCase(name1.s))))
        ELSE IF ~Truthy(name1)
             THEN Result(st, Return(Lookup(st.profiles, S_plain)))
        ELSE IF name1.t \in {"string", "number", "boolean"}
             THEN \* 'tag_case' in <primitive>
                  Result(st, Throw(TypeError))
        ELSE IF name1.t = "object" /\ "tag_case" \in DOMAIN st.heap[name1.n].fields
             THEN create(st, 1, name1, NoOptions)
        ELSE Result(st, Return(Lookup(st.profiles, S_plain)))

remove(st, name) ==
    IF Truthy(name) /\ ~isString(name) THEN Result(st, Throw(TypeError))
    ELSE LET key == toLowerCase(IF Truthy(name) THEN name.s ELSE <<>>)
             P   == st.profiles
         IN  IF In(key, P)
             THEN Result([st EXCEPT !.profiles = [k \in DOMAIN P \ {key} |-> P[k]]],
                         Return(Undef))
             ELSE Result(st, Return(Undef))

\* -------------------------------------------------------- bootstrap
Boot0 == State([k \in {} |-> 0], <<>>, DefaultProfileInit)
Boot1 == createProfile(Boot0, Str(S_xhtml), NoOptions).st
Boot2 == createProfile(Boot1, Str(S_html), [self_closing_tag |-> Bool(FALSE)]).st
Boot3 == createProfile(Boot2, Str(S_xml),
                       [self_closing_tag |-> Bool(TRUE), tag_nl |-> Bool(TRUE)]).st
Boot4 == createProfile(Boot3, Str(S_plain),
                       [tag_nl |-> Bool(FALSE), indent |-> Bool(FALSE),
                        place_cursor |-> Bool(FALSE)]).st

BuiltinCount == Len(Boot4.heap)

\* What the caller did last: the operation, its arguments, the answer of the
\* resources collaborator, the properties the argument object had when it was
\* passed (options), and the registry as it was before the call (before).
Call(op, name, syntax, subset, options, str) ==
    [op |-> op, name |-> name, syntax |-> syntax, subset |-> subset,
     options |-> options, str |-> str, before |-> profiles]

Init ==
    /\ profiles = Boot4.profiles
    /\ heap = Boot4.heap
    /\ defaultProfile = Boot4.defaultProfile
    /\ call = [op |-> "init", name |-> Undef, syntax |-> Undef, subset |-> Undef,
               options |-> NoOptions, str |-> Undef, before |-> Boot4.profiles]
    /\ ret = Return(Undef)

\* The outcome of a call becomes the next state.
Becomes(r) ==
    /\ profiles' = r.st.profiles
    /\ heap' = r.st.heap
    /\ defaultProfile' = r.st.defaultProfile
    /\ ret' = r.ret

\* The caller holds the object the previous call returned.
Held == ret.kind = "return" /\ ret.val.t = "object"

\* The caller writes an object literal with properties lit.
Literal(st, lit) == [st EXCEPT !.heap = Append(@, [proto |-> "Object", fields |-> lit])]

\* There is room for one more object.
Room == Len(heap) < BuiltinCount + MaxObjs

\* ----------------------------------------------------------- actions
\* create(name, options)
Create2(name, options) ==
    /\ Room
    /\ call' = Call("create2", name, Undef, Undef, options, Undef)
    /\ Becomes(create(Here, 2, name, options))

\* create()
Create1None ==
    /\ Room
    /\ call' = Call("create1", Undef, Undef, Undef, NoOptions, Undef)
    /\ Becomes(create(Here, 1, Undef, NoOptions))

\* create(o) with o a new object literal
Create1New(lit) ==
    /\ Room
    /\ call' = Call("create1", Ref(Len(heap) + 1), Undef, Undef, lit, Undef)
    /\ Becomes(create(Literal(Here, lit), 1, Ref(Len(heap) + 1), NoOptions))

\* create(o) with o the object the previous call returned
Create1Held ==
    /\ Held
    /\ call' = Call("create1", ret.val, Undef, Undef, heap[ret.val.n].fields, Undef)
    /\ Becomes(create(Here, 1, ret.val, NoOptions))

\* get(name) and get(name, syntax) with name a string or undefined
Get(name, syntax, subset) ==
    /\ call' = Call("get", name, syntax, subset, NoOptions, Undef)
    /\ Becomes(get(Here, name, syntax, subset))

\* get(o) and get(o, syntax) with o a new object literal
GetNew(lit, syntax, subset) ==
    /\ Room
    /\ call' = Call("get", Ref(Len(heap) + 1), syntax, subset, lit, Undef)
    /\ Becomes(get(Literal(Here, lit), Ref(Len(heap) + 1), syntax, subset))

\* get(o) with o the object the previous call returned
GetHeld ==
    /\ Held
    /\ call' = Call("get", ret.val, Undef, Undef, heap[ret.val.n].fields, Undef)
    /\ Becomes(get(Here, ret.val, Undef, Undef))

\* remove(name)
Remove(name) ==
    /\ call' = Call("remove", name, Undef, Undef, NoOptions, Undef)
    /\ Becomes(remove(Here, name))

\* A method of OutputProfile.prototype called on the object the previous call
\* returned: only an OutputProfile has it.
Invoke(method, str, result) ==
    /\ Held
    /\ call' = Call(method, ret.val, Undef, Undef, NoOptions, str)
    /\ ret' = IF heap[ret.val.n].proto = "OutputProfile"
              THEN Return(Str(result)) ELSE Throw(TypeError)
    /\ UNCHANGED <<profiles, heap, defaultProfile>>

\* p.selfClosing()
SelfClosing == Held /\ Invoke("selfClosing", Undef, selfClosing(heap[ret.val.n].fields))

\* p.tagName(str)
TagName(str) == Held /\ Invoke("tagName", Str(str), tagName(heap[ret.val.n].fields, str))

\* p.attributeName(str)
AttributeName(str) ==
    Held /\ Invoke("attributeName", Str(str), attributeName(heap[ret.val.n].fields, str))

\* The module's stringCase(str, caseValue)
StringCase(str, caseValue) ==
    /\ call' = Call("stringCase", caseValue, Undef, Undef, NoOptions, Str(str))
    /\ ret' = Return(Str(stringCase(str, caseValue)))
    /\ UNCHANGED <<profiles, heap, defaultProfile>>

\* ------------------------------------- the whole interface, no syntax
Options == {NoOptions, [tag_case |-> Str(S_upper), self_closing_tag |-> Num(1)]}

ObjectLiterals == {[tag_case |-> Str(S_upper)], [indent |-> Bool(FALSE)]}

Next ==
    \/ \E options \in Options : Create2(Str(S_custom), options)
    \/ Create1None
    \/ \E lit \in ObjectLiterals : Create1New(lit)
    \/ Create1Held
    \/ \E name \in {Str(S_xhtml), Str(S_custom), Str(<<>>)} : Get(name, Undef, Undef)
    \/ \E lit \in ObjectLiterals : GetNew(lit, Undef, Undef)
    \/ GetHeld
    \/ \E name \in {Str(S_custom), Str(S_plain)} : Remove(name)

Spec == Init /\ [][Next]_vars

\* --------------------------------------------------- lookups by name
NamesCreate == {Str(S_custom), Str(S_Custom), Str(S_plain)}

NamesOptions == {NoOptions, [self_closing_tag |-> Bool(TRUE)]}

NamesGet == {Str(S_xhtml), Str(S_XHTML), Str(S_custom), Str(S_Custom), Str(S_plain),
             Str(S_constructor)}

NamesRemove == {Str(S_xhtml), Str(S_XHTML), Str(S_Custom), Str(S_plain), Undef}

NextNames ==
    \/ \E name \in NamesCreate, options \in NamesOptions : Create2(name, options)
    \/ \E name \in NamesGet : Get(name, Undef, Undef)
    \/ \E name \in NamesRemove : Remove(name)

SpecNames == Init /\ [][NextNames]_vars

\* ------------------------------------------------- lookups by syntax
SyntaxArgs == {Undef, Str(S_html)}

SubsetAnswers == {Undef, Str(<<>>), Str(S_XHTML), Str(S_custom)}

NextSyntax ==
    \/ Create2(Str(S_custom), NoOptions)
    \/ \E name \in {Str(S_xml), Str(S_custom), Str(<<>>), Undef},
          syntax \in SyntaxArgs, subset \in SubsetAnswers : Get(name, syntax, subset)
    \/ \E syntax \in SyntaxArgs, subset \in SubsetAnswers :
          GetNew([tag_case |-> Str(S_upper)], syntax, subset)
    \/ Remove(Str(S_xhtml))

SpecSyntax == Init /\ [][NextSyntax]_vars

\* ------------------------------------------------------ selfClosing
SelfClosingOptions ==
    {NoOptions} \cup
    {[self_closing_tag |-> v] :
        v \in {Bool(TRUE), Bool(FALSE), Num(1), Str(S_xhtml), Str(S_XHTML), Arr(S_xhtml)}}

NextProfile ==
    \/ \E options \in SelfClosingOptions : Create2(Str(S_custom), options)
    \/ \E name \in {Str(S_custom), Str(S_html), Str(S_xml)} : Get(name, Undef, Undef)
    \/ SelfClosing

SpecProfile == Init /\ [][NextProfile]_vars

\* -------------------------------------------------- case transforms
Alphabet == {"a", "B", "-"}

Strings == UNION {[1..n -> Alphabet] : n \in 0..MaxLen}

CaseValues == {Str(S_lower), Str(S_upper), Str(S_leave), Str(S_UPPER), Str(S_Lower),
               Str(<<>>), Undef, Arr(S_upper)}

CaseOptions == {[tag_case |-> Str(S_UPPER)], [tag_case |-> Arr(S_upper)],
                [tag_case |-> Str(S_leave), attr_case |-> Str(S_upper)],
                [attr_case |-> Str(S_Lower)], [attr_case |-> Bool(TRUE)]}

\* After the bootstrap and one create("custom", options).
InitCase ==
    \E options \in CaseOptions :
        LET r == create(Boot4, 2, Str(S_custom), options)
        IN  /\ profiles = r.st.profiles
            /\ heap = r.st.heap
            /\ defaultProfile = r.st.defaultProfile
            /\ call = [op |-> "create2", name |-> Str(S_custom), syntax |-> Undef,
                       subset |-> Undef, options |-> options, str |-> Undef,
                       before |-> Boot4.profiles]
            /\ ret = r.ret

NextCase ==
    \/ \E name \in {Str(S_custom), Str(S_xhtml)} : Get(name, Undef, Undef)
    \/ \E str \in Strings : TagName(str)
    \/ \E str \in Strings : AttributeName(str)
    \/ \E str \in Strings, caseValue \in CaseValues : StringCase(str, caseValue)

SpecCase == InitCase /\ [][NextCase]_vars

\* =========================================================== claims
\* The registry key a string name spells.
KeyOf(v) == toLowerCase(v.s)

\* The properties of the object v refers to.
FieldsOf(v) == heap[v.n].fields

\* The instances the registry holds now / held before the last call.
Registered == {profiles[k] : k \in DOMAIN profiles}
RegisteredBefore == {call.before[k] : k \in DOMAIN call.before}

\* A get of a string name with no syntax argument.
PlainGet == call.op = "get" /\ isString(call.name) /\ ~Truthy(call.syntax)

\* Options merged over the defaults, field by field.
Merged(options) ==
    [f \in FieldNames |-> IF f \in DOMAIN options THEN options[f] ELSE DefaultProfileInit[f]]

\* C1: get(name) with a non-empty string name that, lowercased, is not a
\* registry key, and no syntax, does not raise and returns the instance stored
\* under 'plain' (while 'plain' is registered).
C1_UnknownNameGivesPlain ==
    (PlainGet /\ Truthy(call.name) /\ KeyOf(call.name) \notin DOMAIN profiles
        /\ S_plain \in DOMAIN profiles)
    => ret = Return(Ref(profiles[S_plain]))

\* C2: remove(n) of a registered name n other than 'plain', followed by get(n),
\* does not raise and returns the instance stored under 'plain' (so never the
\* removed profile).
C2_RemoveThenGet ==
    [][(/\ call.op = "remove" /\ isString(call.name)
        /\ KeyOf(call.name) \in DOMAIN call.before \ {S_plain}
        /\ S_plain \in DOMAIN profiles
        /\ call'.op = "get" /\ call'.name = call.name /\ ~Truthy(call'.syntax))
       => ret' = Return(Ref(profiles[S_plain]))]_vars

\* C3: create(name, options) stores the new instance under the lowercased name,
\* replacing whatever was there: the registry holds exactly one entry for the
\* name, it is the instance this create returned and not an earlier one, and
\* get under any spelling of the name returns it.
C3_CreateOverwrites ==
    /\ (call.op = "create2" /\ isString(call.name)) =>
          /\ ret.kind = "return" /\ ret.val.t = "object"
          /\ DOMAIN profiles = DOMAIN call.before \cup {KeyOf(call.name)}
          /\ profiles[KeyOf(call.name)] = ret.val.n
          /\ ret.val.n \notin RegisteredBefore
          /\ Cardinality({k \in DOMAIN profiles : toLowerCase(k) = KeyOf(call.name)}) = 1
          /\ \A n \in NamesGet :
                KeyOf(n) = KeyOf(call.name) => get(Here, n, Undef, Undef).ret = ret
    /\ (PlainGet /\ KeyOf(call.name) \in DOMAIN profiles) =>
          ret = Return(Ref(profiles[KeyOf(call.name)]))

\* C3 witness: a create that replaced an entry an earlier create had made.
C3_Witness ==
    /\ call.op = "create2"
    /\ KeyOf(call.name) \in DOMAIN call.before
    /\ call.before[KeyOf(call.name)] > BuiltinCount
    /\ profiles[KeyOf(call.name)] = ret.val.n
    /\ ret.val.n # call.before[KeyOf(call.name)]

\* C4: every registry key is lowercase; get gives the same outcome for names
\* that differ only in letter case, and a registered name in any spelling gives
\* the stored instance; create and remove under any spelling touch only the
\* one entry of the lowercased name.
C4_CaseInsensitive ==
    /\ \A k \in DOMAIN profiles : k = toLowerCase(k)
    /\ \A n1, n2 \in NamesGet :
          KeyOf(n1) = KeyOf(n2) =>
             get(Here, n1, Undef, Undef).ret = get(Here, n2, Undef, Undef).ret
    /\ (PlainGet /\ KeyOf(call.name) \in DOMAIN profiles) =>
          ret = Return(Ref(profiles[KeyOf(call.name)]))
    /\ (call.op \in {"create2", "remove"} /\ isString(call.name)) =>
          /\ \A k \in (DOMAIN profiles \cup DOMAIN call.before) \ {KeyOf(call.name)} :
                /\ k \in DOMAIN profiles /\ k \in DOMAIN call.before
                /\ profiles[k] = call.before[k]
          /\ (call.op = "create2") => KeyOf(call.name) \in DOMAIN profiles
          /\ (call.op = "remove") => KeyOf(call.name) \notin DOMAIN profiles

\* C4 witness: an entry created under one spelling is returned by a get under
\* another spelling.
C4_Witness ==
    /\ PlainGet
    /\ call.name = Str(S_Custom)
    /\ S_custom \in DOMAIN profiles
    /\ ret = Return(Ref(profiles[S_custom]))

\* C5: get(o) and create(o) with an object o that carries tag_case leave the
\* registry unchanged and return a freshly built profile, distinct from o and
\* from every registered instance, whose fields are o's merged over the defaults.
C5_FreshProfile ==
    (call.op \in {"get", "create1"} /\ call.name.t = "object"
        /\ "tag_case" \in DOMAIN call.options)
    => /\ profiles = call.before
       /\ ret.kind = "return" /\ ret.val.t = "object"
       /\ ret.val # call.name
       /\ ret.val.n \notin Registered
       /\ FieldsOf(ret.val) = Merged(call.options)

\* C6: every registered profile and every profile create or get returns has
\* all nine fields; a profile that create builds has the caller's value for
\* each field given and the default for each field omitted; the defaults
\* record is never modified.
C6_AllNineFields ==
    /\ defaultProfile = DefaultProfileInit
    /\ \A r \in Registered : FieldNames \subseteq DOMAIN heap[r].fields
    /\ (call.op \in {"create2", "create1", "get"} /\ ret.kind = "return"
           /\ ret.val.t = "object") => FieldNames \subseteq DOMAIN FieldsOf(ret.val)
    /\ (call.op \in {"create2", "create1"}) =>
          /\ ret.kind = "return" /\ ret.val.t = "object"
          /\ FieldsOf(ret.val) = Merged(call.options)
    /\ (call.op = "get" /\ call.name.t = "object" /\ "tag_case" \in DOMAIN call.options) =>
          /\ ret.kind = "return" /\ ret.val.t = "object"
          /\ FieldsOf(ret.val) = Merged(call.options)

\* C6 witness: a profile built from options that give some fields and omit others.
C6_Witness ==
    /\ call.op = "create2"
    /\ call.options = [tag_case |-> Str(S_upper), self_closing_tag |-> Num(1)]
    /\ FieldsOf(ret.val).tag_case = Str(S_upper)
    /\ FieldsOf(ret.val).self_closing_tag = Num(1)
    /\ FieldsOf(ret.val).indent = Bool(TRUE)
    /\ FieldsOf(ret.val).inline_break = Num(3)

\* The contents of the registry: each key with the properties of its profile.
Contents == [k \in DOMAIN profiles |-> heap[profiles[k]].fields]

\* C7: after initialization the registry holds exactly xhtml, html, xml and
\* plain with the documented contents, and the registry changes only through
\* create(name, options) and remove.
C7_Builtins ==
    /\ (call.op = "init") =>
          /\ DOMAIN profiles = {S_xhtml, S_html, S_xml, S_plain}
          /\ Contents[S_xhtml] = DefaultProfileInit
          /\ Contents[S_html] = [DefaultProfileInit EXCEPT !.self_closing_tag = Bool(FALSE)]
          /\ Contents[S_xml] = [DefaultProfileInit EXCEPT !.self_closing_tag = Bool(TRUE),
                                                         !.tag_nl = Bool(TRUE)]
          /\ Contents[S_plain] = [DefaultProfileInit EXCEPT !.tag_nl = Bool(FALSE),
                                                           !.indent = Bool(FALSE),
                                                           !.place_cursor = Bool(FALSE)]
    /\ (call.op \notin {"create2", "remove"}) => profiles = call.before

\* C7 witness: after a get of an inline options object the registry is still
\* the four built-ins.
C7_Witness ==
    /\ call.op = "get" /\ call.name.t = "object"
    /\ ret.kind = "return" /\ ret.val.t = "object"
    /\ profiles = Boot4.profiles
    /\ DOMAIN profiles = {S_xhtml, S_html, S_xml, S_plain}

\* What selfClosing() gives for a self_closing_tag value: " /" for a value
\* that == 'xhtml', "/" for boolean true, "" for anything else.
SelfClosingFor(v) ==
    IF v \in {Str(S_xhtml), Arr(S_xhtml)} THEN <<" ", "/">>
    ELSE IF v = Bool(TRUE) THEN <<"/">>
    ELSE <<>>

\* C8 as stated: a profile built from options that omit self_closing_tag
\* answers "" to selfClosing().
C8_OmittedGivesEmpty ==
    [][(call.op = "create2" /\ call'.op = "selfClosing") =>
          ret' = Return(Str(IF "self_closing_tag" \in DOMAIN call.options
                            THEN SelfClosingFor(call.options.self_closing_tag)
                            ELSE <<>>))]_vars

\* C8: selfClosing() answers by the profile's self_closing_tag (" /" for
\* 'xhtml', "/" for boolean true, "" otherwise); a profile built from options
\* that give self_closing_tag answers by the given value, one built from
\* options that omit it answers " /", the default being 'xhtml'.
C8_SelfClosing ==
    /\ [](((call.op = "selfClosing") /\ heap[call.name.n].proto = "OutputProfile") =>
             ret = Return(Str(SelfClosingFor(FieldsOf(call.name).self_closing_tag))))
    /\ [][(call.op = "create2" /\ call'.op = "selfClosing") =>
             ret' = Return(Str(IF "self_closing_tag" \in DOMAIN call.options
                               THEN SelfClosingFor(call.options.self_closing_tag)
                               ELSE <<" ", "/">>))]_vars

\* C8 witness: the profile registered as 'custom' with self_closing_tag true
\* answers "/".
C8_Witness ==
    /\ call.op = "selfClosing"
    /\ S_custom \in DOMAIN profiles
    /\ call.name = Ref(profiles[S_custom])
    /\ FieldsOf(call.name).self_closing_tag = Bool(TRUE)
    /\ ret = Return(Str(<<"/">>))

\* Lowercase and uppercase of the strings over Alphabet, letter by letter.
Lowered(s) == [i \in 1..Len(s) |-> IF s[i] = "B" THEN "b" ELSE s[i]]
Uppered(s) == [i \in 1..Len(s) |-> IF s[i] = "a" THEN "A" ELSE s[i]]

\* C9 as stated: only the two strings "lower" and "upper" transform; every
\* other case value leaves the string unchanged.
C9_OnlyExactStrings ==
    (call.op = "stringCase") =>
        ret = Return(Str(IF call.name = Str(S_lower) THEN Lowered(call.str.s)
                         ELSE IF call.name = Str(S_upper) THEN Uppered(call.str.s)
                         ELSE call.str.s))

\* What the case transform gives for a case value: the value's string form is
\* compared without regard to letter case.
CaseFor(s, c) ==
    IF c \in {Str(S_lower), Str(S_Lower)} THEN Lowered(s)
    ELSE IF c \in {Str(S_upper), Str(S_UPPER), Arr(S_upper)} THEN Uppered(s)
    ELSE s

\* C9: stringCase(s, c) is s lowercased when c's string form, lowercased, is
\* "lower", s uppercased when it is "upper", and s unchanged for every other
\* c; tagName and attributeName give the same with c the profile's tag_case
\* and attr_case.
C9_StringCase ==
    /\ (call.op = "stringCase") => ret = Return(Str(CaseFor(call.str.s, call.name)))
    /\ (call.op = "tagName") =>
          ret = Return(Str(CaseFor(call.str.s, FieldsOf(call.name).tag_case)))
    /\ (call.op = "attributeName") =>
          ret = Return(Str(CaseFor(call.str.s, FieldsOf(call.name).attr_case)))

\* C9 witness: a case value spelled in capitals transforms the string.
C9_Witness ==
    /\ call.op = "tagName"
    /\ FieldsOf(call.name).tag_case = Str(S_UPPER)
    /\ call.str = Str(<<"a", "B">>)
    /\ ret = Return(Str(<<"A", "B">>))

\* C10: get(name, syntax) with a string name and an override from the
\* resources collaborator resolves the override in place of name: a registered
\* override gives that profile, an unregistered one falls through without
\* raising; with no override, no syntax, or a name that is not a string, the
\* outcome is that of get(name).
C10_SyntaxOverride ==
    (call.op = "get") =>
        IF Truthy(call.syntax) /\ isString(call.name) /\ Truthy(call.subset)
        THEN IF KeyOf(call.subset) \in DOMAIN profiles
             THEN ret = Return(Ref(profiles[KeyOf(call.subset)]))
             ELSE ret.kind = "return"
        ELSE ret = get(Here, call.name, Undef, Undef).ret

====
